---- MODULE Spec2Model ----
(***************************************************************************)
(* Chatrix: the client-side chat store (src/src/store/chat-store.ts), the  *)
(* message router inside initializeRealtime, the direct-chat creation of   *)
(* the application shell and the realtime transport client                 *)
(* (src/unnamed/part_007, class RealtimeService).                          *)
(*                                                                         *)
(* Strings that the code compares or concatenates (user identifiers, chat  *)
(* ids) are sequences of UTF-16 code units.  Message ids are opaque        *)
(* numbers: the code only tests them for equality.                         *)
(***************************************************************************)
EXTENDS Integers, Sequences, FiniteSets, TLC

\* ------------------------------------------------------------------ bounds
\* Largest timestamp a clock (local or remote) shows.
MaxTime == 2
\* Messages kept in the store at one time by the store-level operations.
MaxMsgs == 2
\* Largest unread counter the store-level operations are driven to.
MaxUnread == 2
\* Message ids the store-level operations draw from: 1..MaxMsgId.
MaxMsgId == 2

\* -------------------------------------------------------------- data model
\* 'sending' | 'sent' | 'delivered' | 'read' | 'failed'
Statuses == {"sending", "sent", "delivered", "read", "failed"}

\* null / undefined of the source for values that are sequences.
Null == <<>>

\* A string value of the source that is not inspected character by character.
Plain(text) == [kind |-> "plain", text |-> text]

\* A field the source leaves out of an object literal.
Undefined == [kind |-> "undefined"]

\* Code units of the characters the identifiers are built from.
CharA == 65
CharUnderscore == 95
CharB == 98

\* "direct"
DirectWord == <<100, 105, 114, 101, 99, 116>>

\* User identifiers (public keys rendered as strings).
UserA == <<CharA>>
UserB == <<CharB>>
Users == {UserA, UserB}

\* String order of JavaScript's default Array.prototype.sort: by code unit,
\* a proper prefix first.
RECURSIVE StrLess(_, _)
StrLess(a, b) ==
    IF a = <<>> THEN b # <<>>
    ELSE IF b = <<>> THEN FALSE
    ELSE IF Head(a) # Head(b) THEN Head(a) < Head(b)
    ELSE StrLess(Tail(a), Tail(b))

\* A bug the sort guards against: the pair is left in the order given.
UnsortedPair(x, y) == <<x, y>>

\* [x, y].sort() on two strings.
SortPair(x, y) == IF StrLess(y, x) THEN <<y, x>> ELSE <<x, y>>

\* `direct_${participants[0]}_${participants[1]}`
DirectChatIdOf(participants) ==
    DirectWord \o <<CharUnderscore>> \o participants[1]
               \o <<CharUnderscore>> \o participants[2]

\* Array.prototype.sort((a, b) => a.timestamp - b.timestamp): a stable sort,
\* computed by insertion.
RECURSIVE InsertByTimestamp(_, _)
InsertByTimestamp(sorted, m) ==
    IF sorted = <<>> THEN <<m>>
    ELSE IF Head(sorted).timestamp <= m.timestamp
         THEN <<Head(sorted)>> \o InsertByTimestamp(Tail(sorted), m)
         ELSE <<m>> \o sorted

RECURSIVE SortFrom(_, _)
SortFrom(done, rest) ==
    IF rest = <<>> THEN done
    ELSE SortFrom(InsertByTimestamp(done, Head(rest)), Tail(rest))

\* A bug the sort guards against: the array is left in arrival order.
UnsortedByTimestamp(msgs) == msgs

SortByTimestamp(msgs) == SortFrom(<<>>, msgs)

\* { ...record, ...updates }
Spread(record, updates) ==
    [f \in DOMAIN record \cup DOMAIN updates |->
        IF f \in DOMAIN updates THEN updates[f] ELSE record[f]]

\* { ...map, [key]: value }
Put(map, key, value) ==
    [k \in DOMAIN map \cup {key} |-> IF k = key THEN value ELSE map[k]]

\* state.messages[chatId] || []
MessagesOf(s, chatId) ==
    IF chatId \in DOMAIN s.messages THEN s.messages[chatId] ELSE <<>>

\* ------------------------------------------------------------------- store
\* The zustand store is one record; every operation is a function from the
\* current snapshot to the next one, as set((state) => ...) is.
VARIABLES
    store,      \* the zustand store's state
    service,    \* the fields of the RealtimeService singleton
    sockets,    \* the socket objects io() has returned, in creation order
    timers,     \* the intervals setInterval has started: TRUE while running
    timeouts,   \* the callbacks setTimeout was given by scheduleReconnect,
                \* each with its delay, pending until it has run
    wire,       \* the 'message' envelopes transmitted to the relay, in order
    calls,      \* the sendEncryptedMessage calls, each with its position
                \* and what it handed to the transport
    clock,      \* Date.now()
    ids,        \* how many random values (ids, nonces) have been drawn
    sns,        \* the fields of the SolanaNameService singleton
    lastOp      \* history: the operation that produced the current state

vars ==
    <<store, service, sockets, timers, timeouts, wire, calls, clock, ids, sns,
      lastOp>>

transportVars == <<service, sockets, timers, timeouts, wire>>

\* Initial state of the store (chat-store.ts, "Initial state").
InitialStore ==
    [currentUser |-> Null,
     chats |-> <<>>,
     messages |-> <<>>,
     activeChat |-> Null,
     peers |-> <<>>,
     onlinePeers |-> {},
     blockedUsers |-> {},
     encryptionKeys |-> <<>>,
     connectionStatus |-> "disconnected",
     sendingMessage |-> FALSE,
     drafts |-> <<>>,
     typingIndicators |-> <<>>,
     selectedMessages |-> {},
     lastSyncTimestamp |-> 0]

setCurrentUser(s, user) == [s EXCEPT !.currentUser = user]

setActiveChat(s, chatId) == [s EXCEPT !.activeChat = chatId]

addChat(s, chat) ==
    [s EXCEPT !.chats = Append(s.chats, chat),
              !.messages = Put(s.messages, chat.id, <<>>)]

updateChat(s, chatId, updates) ==
    LET Upd(chat) == IF chat.id = chatId THEN Spread(chat, updates) ELSE chat
    IN [s EXCEPT !.chats = [i \in 1..Len(s.chats) |-> Upd(s.chats[i])]]

removeChat(s, chatId) ==
    [s EXCEPT !.chats = SelectSeq(s.chats, LAMBDA c : c.id # chatId),
              !.messages = [k \in DOMAIN s.messages \ {chatId} |-> s.messages[k]],
              !.activeChat = IF s.activeChat = chatId THEN Null ELSE s.activeChat]

\* A bug of the counter: the test for the active chat is missing.
addMessageCountingActive(s, chatId, message) ==
    LET chatMessages == MessagesOf(s, chatId)
        UpdateChat(chat) ==
            IF chat.id = chatId
            THEN [chat EXCEPT
                    !.lastMessage = <<message>>,
                    !.lastActivity = message.timestamp,
                    !.unreadCount = chat.unreadCount + 1]
            ELSE chat
    IN [s EXCEPT
          !.messages = Put(s.messages, chatId,
                           SortByTimestamp(Append(chatMessages, message))),
          !.chats = [i \in 1..Len(s.chats) |-> UpdateChat(s.chats[i])]]

addMessage(s, chatId, message) ==
    LET chatMessages == MessagesOf(s, chatId)
        UpdateChat(chat) ==
            IF chat.id = chatId
            THEN [chat EXCEPT
                    !.lastMessage = <<message>>,
                    !.lastActivity = message.timestamp,
                    !.unreadCount = IF chat.id = s.activeChat THEN 0
                                    ELSE chat.unreadCount + 1]
            ELSE chat
    IN [s EXCEPT
          !.messages = Put(s.messages, chatId,
                           SortByTimestamp(Append(chatMessages, message))),
          !.chats = [i \in 1..Len(s.chats) |-> UpdateChat(s.chats[i])]]

\* A bug of the map: the id test is missing, every message is updated.
updateEveryMessage(s, chatId, messageId, updates) ==
    LET old == MessagesOf(s, chatId)
    IN [s EXCEPT !.messages = Put(s.messages, chatId,
                                  [i \in 1..Len(old) |-> Spread(old[i], updates)])]

updateMessage(s, chatId, messageId, updates) ==
    LET Upd(msg) == IF msg.id = messageId THEN Spread(msg, updates) ELSE msg
        old == MessagesOf(s, chatId)
    IN [s EXCEPT !.messages = Put(s.messages, chatId,
                                  [i \in 1..Len(old) |-> Upd(old[i])])]

removeMessage(s, chatId, messageId) ==
    [s EXCEPT !.messages =
        Put(s.messages, chatId,
            SelectSeq(MessagesOf(s, chatId), LAMBDA msg : msg.id # messageId))]

setMessages(s, chatId, msgs) ==
    [s EXCEPT !.messages = Put(s.messages, chatId, SortByTimestamp(msgs))]

\* Peer lookup: state.peers.find(p => p.publicKey === key) is defined.
HasPeer(s, key) == \E i \in 1..Len(s.peers) : s.peers[i].publicKey = key

addPeer(s, peer) ==
    IF HasPeer(s, peer.publicKey)
    THEN LET i == CHOOSE j \in 1..Len(s.peers) :
                    /\ s.peers[j].publicKey = peer.publicKey
                    /\ \A k \in 1..(j - 1) : s.peers[k].publicKey # peer.publicKey
         IN [s EXCEPT !.peers[i] = Spread(s.peers[i], peer)]
    ELSE [s EXCEPT !.peers = Append(s.peers, peer)]

removePeer(s, publicKey) ==
    [s EXCEPT !.peers = SelectSeq(s.peers, LAMBDA p : p.publicKey # publicKey)]

\* lastSeen is not modelled beyond its initial value: no operation reads it.
setPeerOnline(s, publicKey, online) ==
    LET Upd(peer) == IF peer.publicKey = publicKey
                     THEN [peer EXCEPT !.isOnline = online]
                     ELSE peer
    IN [s EXCEPT
          !.onlinePeers = IF online THEN s.onlinePeers \cup {publicKey}
                          ELSE s.onlinePeers \ {publicKey},
          !.peers = [i \in 1..Len(s.peers) |-> Upd(s.peers[i])]]

blockUser(s, userId) == [s EXCEPT !.blockedUsers = s.blockedUsers \cup {userId}]

unblockUser(s, userId) == [s EXCEPT !.blockedUsers = s.blockedUsers \ {userId}]

setTyping(s, indicator) ==
    LET filtered == SelectSeq(s.typingIndicators,
                              LAMBDA x : ~(x.chatId = indicator.chatId
                                           /\ x.userId = indicator.userId))
    IN [s EXCEPT !.typingIndicators = Append(filtered, indicator)]

clearTyping(s, chatId, userId) ==
    [s EXCEPT !.typingIndicators =
        SelectSeq(s.typingIndicators,
                  LAMBDA x : ~(x.chatId = chatId /\ x.userId = userId))]

toggleMessageSelection(s, messageId) ==
    [s EXCEPT !.selectedMessages =
        IF messageId \in s.selectedMessages
        THEN s.selectedMessages \ {messageId}
        ELSE s.selectedMessages \cup {messageId}]

clearSelectedMessages(s) == [s EXCEPT !.selectedMessages = {}]

saveDraft(s, chatId, content) ==
    [s EXCEPT !.drafts = Put(s.drafts, chatId, content)]

\* syncMessages; currentTime is what Date.now() returned.
syncMessages(s, currentTime) == [s EXCEPT !.lastSyncTimestamp = currentTime]

\* generateSharedKey; sharedKey is what crypto.getRandomValues filled.
generateSharedKey(s, userId, sharedKey) ==
    [s EXCEPT !.encryptionKeys = Put(s.encryptionKeys, userId, sharedKey)]

\* A bug the snapshot guards against: the key cache is written out too.
partializeWithKeys(state) ==
    [currentUser |-> state.currentUser,
     chats |-> state.chats,
     messages |-> state.messages,
     peers |-> state.peers,
     drafts |-> state.drafts,
     encryptionKeys |-> state.encryptionKeys,
     lastSyncTimestamp |-> state.lastSyncTimestamp]

\* partialize of the persist middleware: the snapshot written to storage.
partialize(state) ==
    [currentUser |-> state.currentUser,
     chats |-> state.chats,
     messages |-> state.messages,
     peers |-> state.peers,
     drafts |-> state.drafts,
     encryptionKeys |-> <<>>,
     lastSyncTimestamp |-> state.lastSyncTimestamp]

\* --------------------------------------------------------------- transport
\* The fields of a new RealtimeService: socket is the index in sockets of the
\* socket the field refers to (0 for null), heartbeatInterval the index in
\* timers of the interval the field refers to (0 for null),
\* onConnectionStatusChange whether the handler is registered (not null).
InitialService ==
    [socket |-> 0,
     currentUser |-> Null,
     messageQueue |-> <<>>,
     reconnectAttempts |-> 0,
     heartbeatInterval |-> 0,
     onConnectionStatusChange |-> FALSE]

maxReconnectAttempts == 5

\* The fields of a new SolanaNameService when localStorage holds no registry:
\* two empty maps; storage is the item saveToStorage has written (null: none).
InitialNameService ==
    [nameRegistry |-> <<>>,
     reverseRegistry |-> <<>>,
     storage |-> Null]

TransportInit ==
    /\ service = InitialService
    /\ sockets = <<>>
    /\ timers = <<>>
    /\ timeouts = <<>>
    /\ wire = <<>>

\* ------------------------------------------------- store-level operations
\* The public operations of the store, called with arbitrary arguments.

\* The identity of the local user in the store-level model.
Self == UserA

\* UserProfile of a user (only publicKey and username are read).
Profile(user) == [publicKey |-> user, username |-> Plain("name")]

\* A Chat object as both creators of direct chats build it (the constant flags
\* isPinned, isMuted, isArchived and createdAt are never read and left out).
NewDirectChat(chatId, participants, createdBy, now) ==
    [id |-> chatId,
     type |-> "direct",
     participants |-> participants,
     createdBy |-> createdBy,
     lastActivity |-> now,
     unreadCount |-> 0,
     lastMessage |-> Null]

\* A Message object.
NewMessage(id, sender, recipient, content, encrypted, nonce, timestamp, status) ==
    [id |-> id,
     sender |-> sender,
     recipient |-> recipient,
     content |-> content,
     encrypted |-> encrypted,
     nonce |-> nonce,
     timestamp |-> timestamp,
     status |-> status,
     senderUsername |-> Plain("name")]

\* The chat the store-level operations are aimed at; it may or may not exist.
StoreChatIds == {DirectChatIdOf(SortPair(Self, UserB))}

HasChat(s, chatId) == \E i \in 1..Len(s.chats) : s.chats[i].id = chatId

ChatById(s, chatId) ==
    s.chats[CHOOSE i \in 1..Len(s.chats) : s.chats[i].id = chatId]

RECURSIVE SumLen(_, _)
SumLen(f, keys) ==
    IF keys = {} THEN 0
    ELSE LET k == CHOOSE x \in keys : TRUE
         IN Len(f[k]) + SumLen(f, keys \ {k})

TotalMessages(s) == SumLen(s.messages, DOMAIN s.messages)

\* Messages a caller may pass in.
InputMessages ==
    {NewMessage(id, UserB, Self, Plain("hi"), Undefined, Undefined, ts, st) :
        id \in 1..MaxMsgId, ts \in 1..MaxTime, st \in {"sending", "delivered"}}

\* Partial<Message> values a caller may pass to updateMessage.
InputUpdates ==
    {[status |-> st] : st \in Statuses} \cup {[timestamp |-> ts] : ts \in 1..MaxTime}

\* Partial<Chat> values a caller may pass to updateChat.
InputChatUpdates == {[unreadCount |-> 0]}

Op(name, chatId, arg) == [op |-> name, chatId |-> chatId, arg |-> arg]

StoreInit ==
    /\ store = setCurrentUser(InitialStore, Profile(Self))
    /\ TransportInit
    /\ calls = <<>>
    /\ clock = 1
    /\ ids = 0
    /\ sns = InitialNameService
    /\ lastOp = Op("init", Null, 0)

StoreFrame == UNCHANGED <<transportVars, calls, clock, ids, sns>>

AddChatOp ==
    \E other \in {UserB} :
        LET chatId == DirectChatIdOf(SortPair(Self, other)) IN
        /\ ~HasChat(store, chatId)
        /\ store' = addChat(store, NewDirectChat(chatId, <<Self, other>>, Self, clock))
        /\ lastOp' = Op("addChat", chatId, 0)
        /\ StoreFrame

UpdateChatOp ==
    \E chatId \in StoreChatIds, updates \in InputChatUpdates :
        /\ store' = updateChat(store, chatId, updates)
        /\ lastOp' = Op("updateChat", chatId, 0)
        /\ StoreFrame

RemoveChatOp ==
    \E chatId \in StoreChatIds :
        /\ store' = removeChat(store, chatId)
        /\ lastOp' = Op("removeChat", chatId, 0)
        /\ StoreFrame

SetActiveChatOp ==
    \E chatId \in StoreChatIds \cup {Null} :
        /\ store' = setActiveChat(store, chatId)
        /\ lastOp' = Op("setActiveChat", chatId, 0)
        /\ StoreFrame

AddMessageOp ==
    \E chatId \in StoreChatIds, m \in InputMessages :
        /\ TotalMessages(store) < MaxMsgs
        /\ \A i \in 1..Len(store.chats) : store.chats[i].unreadCount < MaxUnread
        /\ store' = addMessage(store, chatId, m)
        /\ lastOp' = Op("addMessage", chatId, m.id)
        /\ StoreFrame

UpdateMessageOp ==
    \E chatId \in StoreChatIds, id \in 1..MaxMsgId, updates \in InputUpdates :
        /\ store' = updateMessage(store, chatId, id, updates)
        /\ lastOp' = Op("updateMessage", chatId, id)
        /\ StoreFrame

RemoveMessageOp ==
    \E chatId \in StoreChatIds, id \in 1..MaxMsgId :
        /\ store' = removeMessage(store, chatId, id)
        /\ lastOp' = Op("removeMessage", chatId, id)
        /\ StoreFrame

SetMessagesOp ==
    \E chatId \in StoreChatIds, m \in InputMessages :
        /\ TotalMessages(store) - Len(MessagesOf(store, chatId)) < MaxMsgs
        /\ store' = setMessages(store, chatId, <<m>>)
        /\ lastOp' = Op("setMessages", chatId, 0)
        /\ StoreFrame

StoreNext ==
    \/ AddChatOp
    \/ UpdateChatOp
    \/ RemoveChatOp
    \/ SetActiveChatOp
    \/ AddMessageOp
    \/ UpdateMessageOp
    \/ RemoveMessageOp
    \/ SetMessagesOp

SpecStore == StoreInit /\ [][StoreNext]_vars

\* ------------------------------------------------ inbound routing, chats
\* Deliveries the routing model lets the relay make.
MaxInbound == 2

\* A 'message' envelope as RealtimeService.sendMessage of a peer builds it
\* (data.messageType and data.fileData are constant and left out).
Envelope(id, from, to, content, timestamp) ==
    [id |-> id,
     type |-> "message",
     from |-> from,
     to |-> to,
     data |-> [messageId |-> id,
               content |-> content,
               senderUsername |-> Plain("name"),
               timestamp |-> timestamp],
     timestamp |-> timestamp]

\* The msg object the socket's 'message' handler builds from a payload:
\* a || b takes b when a is falsy (an absent id or timestamp is 0 here); the
\* nonce is undefined when data has none.
InboundMessage(payload) ==
    [id |-> IF payload.data.messageId # 0
            THEN payload.data.messageId ELSE payload.id,
     sender |-> payload.from,
     senderUsername |-> payload.data.senderUsername,
     recipient |-> payload.to,
     content |-> payload.data.content,
     encrypted |-> Undefined,
     nonce |-> IF "nonce" \in DOMAIN payload.data THEN payload.data.nonce
               ELSE Undefined,
     timestamp |-> IF payload.data.timestamp # 0
                   THEN payload.data.timestamp ELSE payload.timestamp,
     status |-> "delivered"]

\* c.type === 'direct' && c.participants.includes(a) && c.participants.includes(b)
IsDirectBetween(c, a, b) ==
    /\ c.type = "direct"
    /\ \E i \in 1..Len(c.participants) : c.participants[i] = a
    /\ \E i \in 1..Len(c.participants) : c.participants[i] = b

\* Index of the first element of chats that Array.prototype.find accepts, 0 if none.
FindDirectChat(s, selfId, senderId) ==
    LET hits == {i \in 1..Len(s.chats) : IsDirectBetween(s.chats[i], selfId, senderId)}
    IN IF hits = {} THEN 0 ELSE CHOOSE i \in hits : \A j \in hits : i <= j

\* A Peer object (messageCount is constant 0 and left out).
NewPeer(publicKey, username, now, isOnline, status) ==
    [publicKey |-> publicKey,
     username |-> username,
     lastSeen |-> now,
     isOnline |-> isOnline,
     status |-> status]

\* A bug of the handler: the chat is synthesized and the peer is not.
RouteInboundWithoutPeer(s, selfId, incoming, now) ==
    LET senderId == incoming.sender
        found == FindDirectChat(s, selfId, senderId)
        chatId == DirectChatIdOf(SortPair(selfId, senderId))
        newChat == NewDirectChat(chatId, <<selfId, senderId>>, senderId, now)
    IN IF found = 0
       THEN addMessage(addChat(s, newChat), chatId, incoming)
       ELSE addMessage(s, s.chats[found].id, incoming)

\* The handler initializeRealtime passes to realtimeService.onMessage.
RouteInbound(s, selfId, incoming, now) ==
    LET senderId == incoming.sender
        found == FindDirectChat(s, selfId, senderId)
        participants == SortPair(selfId, senderId)
        chatId == DirectChatIdOf(participants)
        newChat == NewDirectChat(chatId, <<selfId, senderId>>, senderId, now)
        withChat == addChat(s, newChat)
        withPeer == IF HasPeer(s, senderId) THEN withChat
                    ELSE addPeer(withChat,
                                 NewPeer(senderId, incoming.senderUsername, now,
                                         TRUE, "online"))
    IN IF found = 0
       THEN addMessage(withPeer, chatId, incoming)
       ELSE addMessage(s, s.chats[found].id, incoming)

\* createDirectChat of the application shell: the chat id it returns and the
\* store it leaves.
CreateDirectChatId(s, selfId, peerPublicKey) ==
    LET expectedChatId == DirectChatIdOf(SortPair(selfId, peerPublicKey))
        hits == {i \in 1..Len(s.chats) :
                    \/ s.chats[i].id = expectedChatId
                    \/ IsDirectBetween(s.chats[i], peerPublicKey, selfId)}
    IN IF hits = {} THEN expectedChatId
       ELSE s.chats[CHOOSE i \in hits : \A j \in hits : i <= j].id

CreateDirectChatStore(s, selfId, peerPublicKey, now) ==
    LET chatId == CreateDirectChatId(s, selfId, peerPublicKey)
        newChat == NewDirectChat(chatId, <<selfId, peerPublicKey>>, selfId, now)
        withChat == setActiveChat(addChat(s, newChat), chatId)
    IN IF HasChat(s, chatId) THEN setActiveChat(s, chatId)
       ELSE IF HasPeer(s, peerPublicKey) THEN withChat
       ELSE addPeer(withChat,
                    NewPeer(peerPublicKey, Plain("name"), now, FALSE, "offline"))

\* Payloads the relay may deliver to the local user.
InboundPayloads(selfId) ==
    {Envelope(id, from, selfId, Plain("hi"), ts) :
        id \in 1..MaxMsgId, from \in Users, ts \in 1..MaxTime}

RouteInit ==
    /\ \E self \in Users : store = setCurrentUser(InitialStore, Profile(self))
    /\ TransportInit
    /\ calls = <<>>
    /\ clock = 1
    /\ ids = 0
    /\ sns = InitialNameService
    /\ lastOp = Op("init", Null, 0)

RouteFrame == UNCHANGED <<transportVars, calls, clock, ids, sns>>

\* The socket's 'message' event: for the type 'message' the service builds
\* the message and calls the store's handler; for any other type it calls
\* nothing.  lastOp names the handler that was called.
OnSocketMessage(payload) ==
    /\ TotalMessages(store) < MaxInbound
    /\ IF payload.type = "message"
       THEN store' = RouteInbound(store, store.currentUser.publicKey,
                                  InboundMessage(payload), clock)
       ELSE store' = store
    /\ lastOp' = Op(IF payload.type = "message" THEN "onMessage" ELSE "none",
                    payload.from, payload.id)
    /\ RouteFrame

Deliver == \E payload \in InboundPayloads(store.currentUser.publicKey) :
               OnSocketMessage(payload)

CreateDirectChat ==
    \E peerPublicKey \in Users :
        /\ store' = CreateDirectChatStore(store, store.currentUser.publicKey,
                                          peerPublicKey, clock)
        /\ lastOp' = Op("createDirectChat", peerPublicKey, 0)
        /\ RouteFrame

SelectChat ==
    \E chatId \in {store.chats[i].id : i \in 1..Len(store.chats)} \cup {Null} :
        /\ store' = setActiveChat(store, chatId)
        /\ lastOp' = Op("setActiveChat", chatId, 0)
        /\ RouteFrame

BlockUser ==
    \E userId \in Users :
        /\ store' = blockUser(store, userId)
        /\ lastOp' = Op("blockUser", userId, 0)
        /\ RouteFrame

UnblockUser ==
    \E userId \in Users :
        /\ store' = unblockUser(store, userId)
        /\ lastOp' = Op("unblockUser", userId, 0)
        /\ RouteFrame

RouteNext ==
    \/ Deliver
    \/ CreateDirectChat
    \/ SelectChat
    \/ BlockUser
    \/ UnblockUser

SpecRoute == RouteInit /\ [][RouteNext]_vars

\* --------------------------------------------------- claims on the store
IsSortedByTimestamp(msgs) ==
    \A i \in 1..(Len(msgs) - 1) : msgs[i].timestamp <= msgs[i + 1].timestamp

\* C1: after every addMessage(chatId, m), whatever the timestamps and the
\* arrival order, messages[chatId] is sorted by timestamp, non-decreasing.
C1_AddMessageKeepsOrder ==
    lastOp.op = "addMessage" =>
        IsSortedByTimestamp(MessagesOf(store, lastOp.chatId))

\* C1 witness: the message just added arrived after a message with a later
\* timestamp and is stored before it.
C1_OutOfOrderArrival ==
    LET msgs == MessagesOf(store, lastOp.chatId) IN
    /\ lastOp.op = "addMessage"
    /\ Len(msgs) = 2
    /\ msgs[1].id = lastOp.arg
    /\ msgs[2].id # lastOp.arg
    /\ msgs[1].timestamp < msgs[2].timestamp

\* sending -> sent -> delivered -> read, or sending -> failed.
StatusRank(st) ==
    CASE st = "sending" -> 0
      [] st = "sent" -> 1
      [] st = "delivered" -> 2
      [] st = "read" -> 3
      [] st = "failed" -> 4

StatusForward(old, new) ==
    \/ old = new
    \/ new = "failed" /\ old = "sending"
    \/ new # "failed" /\ old # "failed" /\ StatusRank(old) < StatusRank(new)

OccursOnce(msgs, id) == Cardinality({i \in 1..Len(msgs) : msgs[i].id = id}) = 1

\* C10: in every step, a message that stays in its chat keeps its status or
\* moves it forward (sending -> sent -> delivered -> read, sending -> failed).
C10_StatusOnlyMovesForward ==
    [][\A c \in DOMAIN store.messages \cap DOMAIN store'.messages :
         \A i \in 1..Len(store.messages[c]) :
           \A j \in 1..Len(store'.messages[c]) :
             ( /\ store.messages[c][i].id = store'.messages[c][j].id
               /\ OccursOnce(store.messages[c], store.messages[c][i].id)
               /\ OccursOnce(store'.messages[c], store.messages[c][i].id) )
             => StatusForward(store.messages[c][i].status,
                              store'.messages[c][j].status)]_vars

\* C17: after every addMessage, setMessages, removeMessage and updateMessage
\* (an update of a timestamp included) the stored sequence of the chat the
\* operation names is sorted by timestamp, non-decreasing.
C17_EveryMutationKeepsOrder ==
    lastOp.op \in {"addMessage", "setMessages", "removeMessage", "updateMessage"}
        => IsSortedByTimestamp(MessagesOf(store, lastOp.chatId))

\* C18: a step of addMessage, updateMessage, removeMessage, updateChat or
\* removeChat that names a chat id no chat of the store has leaves the store
\* as it was: no chat, no message and no entry of messages is made or changed.
C18_MissingChatIsNoOp ==
    [][( /\ lastOp'.op \in {"addMessage", "updateMessage", "removeMessage",
                           "updateChat", "removeChat"}
         /\ ~HasChat(store, lastOp'.chatId) )
       => store' = store]_vars

\* The ids of the messages a chat stores.
IdsOf(s, chatId) ==
    {MessagesOf(s, chatId)[i].id : i \in 1..Len(MessagesOf(s, chatId))}

\* C19: in every state where the chat exists, updateMessage (with any
\* updates) and removeMessage with an id the chat does not store give back the
\* same store; and removeMessage applied twice, or updateMessage applied twice
\* with the same updates, gives the state that one application gives.
C19_AbsentIdIsNoOpAndIdempotent ==
    \A chatId \in StoreChatIds, id \in 1..MaxMsgId :
        LET removed == removeMessage(store, chatId, id) IN
        /\ (HasChat(store, chatId) /\ id \notin IdsOf(store, chatId))
              => /\ removed = store
                 /\ \A updates \in InputUpdates :
                       updateMessage(store, chatId, id, updates) = store
        /\ removeMessage(removed, chatId, id) = removed
        /\ \A updates \in InputUpdates :
              LET updated == updateMessage(store, chatId, id, updates)
              IN updateMessage(updated, chatId, id, updates) = updated

\* C19 witness: removeMessage has just run on a chat that exists and is full,
\* so the id it was given matched no message.
C19_AbsentIdOnFullChat ==
    /\ lastOp.op = "removeMessage"
    /\ HasChat(store, lastOp.chatId)
    /\ Len(MessagesOf(store, lastOp.chatId)) = MaxMsgs
    /\ lastOp.arg \notin IdsOf(store, lastOp.chatId)

\* ------------------------------------------------- claims on the routing
\* The least and the greatest string of a set in code-unit order.
LeastOf(S) == CHOOSE x \in S : \A y \in S : ~StrLess(y, x)

GreatestOf(S) == CHOOSE x \in S : \A y \in S : ~StrLess(x, y)

\* direct_<smaller>_<larger> of an unordered pair of participants.
PairChatId(S) ==
    DirectWord \o <<CharUnderscore>> \o LeastOf(S) \o <<CharUnderscore>> \o GreatestOf(S)

\* C3: every direct chat, whether createDirectChat made it or inbound routing
\* synthesized it, on either participant's side, has the id
\* direct_<smaller>_<larger> of its unordered participant pair.
C3_DirectChatIdOfUnorderedPair ==
    \A i \in 1..Len(store.chats) :
        LET c == store.chats[i] IN
        c.id = PairChatId({c.participants[1], c.participants[2]})

\* C3 witness: the local user is the greater identifier and is listed first in
\* participants; a chat made by createDirectChat and a chat synthesized by
\* routing both exist.
C3_BothCreatorsFromGreaterSide ==
    /\ \E i \in 1..Len(store.chats) :
          /\ store.chats[i].createdBy = store.currentUser.publicKey
          /\ StrLess(store.chats[i].participants[2], store.chats[i].participants[1])
          /\ store.chats[i].id = PairChatId({UserA, UserB})
    /\ \E i \in 1..Len(store.chats) :
          /\ store.chats[i].lastMessage # Null
          /\ store.chats[i].participants[1] = store.chats[i].participants[2]
    /\ lastOp.op = "onMessage"

\* C4: a step that delivers a message of a blocked sender changes no chat, no
\* peer and no stored sequence; a message of a sender that is not blocked is
\* stored.
C4_BlockedSenderIsSuppressed ==
    [][\A payload \in InboundPayloads(store.currentUser.publicKey) :
         OnSocketMessage(payload) =>
           IF payload.from \in store.blockedUsers
           THEN /\ store'.chats = store.chats
                /\ store'.peers = store.peers
                /\ store'.messages = store.messages
           ELSE TotalMessages(store') = TotalMessages(store) + 1]_vars

\* C8: within each chat's stored sequence the message ids are pairwise distinct.
C8_NoDuplicateIds ==
    \A c \in DOMAIN store.messages :
        \A i, j \in 1..Len(store.messages[c]) :
            store.messages[c][i].id = store.messages[c][j].id => i = j

\* C9: when a message of X arrives and the store has no direct chat with X, no
\* peer record for X and no active chat, then afterwards exactly one chat has
\* the id direct_X_Y (sorted), X has a peer record, that chat's stored sequence
\* is exactly the message, and its unreadCount is 1.
C9_FirstContact ==
    [][\A payload \in InboundPayloads(store.currentUser.publicKey) :
         ( /\ OnSocketMessage(payload)
           /\ FindDirectChat(store, store.currentUser.publicKey, payload.from) = 0
           /\ ~HasPeer(store, payload.from)
           /\ store.activeChat = Null )
         => LET chatId == PairChatId({payload.from, store.currentUser.publicKey})
            IN /\ Cardinality({i \in 1..Len(store'.chats) :
                                  store'.chats[i].id = chatId}) = 1
               /\ HasPeer(store', payload.from)
               /\ MessagesOf(store', chatId) = <<InboundMessage(payload)>>
               /\ ChatById(store', chatId).unreadCount = 1]_vars

\* C9 witness: the state after a first contact.
C9_AfterFirstContact ==
    /\ lastOp.op = "onMessage"
    /\ Len(store.chats) = 1
    /\ store.chats[1].createdBy = lastOp.chatId
    /\ store.chats[1].createdBy # store.currentUser.publicKey
    /\ store.chats[1].unreadCount = 1
    /\ HasPeer(store, lastOp.chatId)
    /\ Len(store.peers) = 1
    /\ TotalMessages(store) = 1

\* ------------------------------------------------ sending, the transport
\* Sockets io() is let to create, heartbeat intervals started, sends issued.
MaxSockets == 3
MaxTimers == 2
MaxSends == 2

\* Uint8Array values: the all-zero key new Uint8Array(32), and the value the
\* n-th draw from the random source gave.
ZeroBytes == [kind |-> "bytes", n |-> 0]

RandomBytes(n) == [kind |-> "bytes", n |-> n]

\* What a call that throws leaves in place of its result.
Thrown == [kind |-> "throw"]

\* string | null results of the decryption.
NullResult == [kind |-> "null"]

StringResult(text) == [kind |-> "string", text |-> text]

\* nacl.secretbox(message, nonce, key): the box, as a term over its inputs;
\* secretbox.open returns the message of a box made with this nonce and this
\* key, and null for anything else (the authentication fails).
secretbox(messageBytes, nonce, key) ==
    [kind |-> "secretbox", text |-> messageBytes, nonce |-> nonce, key |-> key]

secretboxOpen(box, nonce, key) ==
    IF box.kind = "secretbox" /\ box.nonce = nonce /\ box.key = key
    THEN [kind |-> "opened", bytes |-> box.text]
    ELSE NullResult

\* @stablelib/utf8 encodedLength on a string given as its UTF-16 code units,
\* from position i on: the number of bytes, or -1 where it throws (a code
\* unit of a surrogate at the end of the string, a code unit above 0xDFFF).
RECURSIVE encodedLength(_, _)
encodedLength(s, i) ==
    IF i > Len(s) THEN 0
    ELSE LET c == s[i]
             bytes == IF c < 128 THEN 1 ELSE IF c < 2048 THEN 2
                      ELSE IF c < 55296 THEN 3 ELSE 4
             rest == encodedLength(s, IF c < 55296 THEN i + 1 ELSE i + 2)
         IN IF c > 57343 THEN -1
            ELSE IF c >= 55296 /\ i >= Len(s) THEN -1
            ELSE IF rest < 0 THEN -1 ELSE bytes + rest

\* The bytes @stablelib/utf8 encode writes from position i on: a code unit
\* from 0xD800 on is joined with the code unit after it, whatever that is.
RECURSIVE encodeFrom(_, _)
encodeFrom(s, i) ==
    IF i > Len(s) THEN <<>>
    ELSE LET c == s[i] IN
         IF c < 128 THEN <<c>> \o encodeFrom(s, i + 1)
         ELSE IF c < 2048
              THEN <<192 + (c \div 64), 128 + (c % 64)>> \o encodeFrom(s, i + 1)
         ELSE IF c < 55296
              THEN <<224 + (c \div 4096), 128 + ((c \div 64) % 64), 128 + (c % 64)>>
                   \o encodeFrom(s, i + 1)
         ELSE LET p == ((c % 1024)) * 1024 + ((s[i + 1] % 1024)) + 65536
              IN <<240 + (p \div 262144), 128 + ((p \div 4096) % 64),
                   128 + ((p \div 64) % 64), 128 + (p % 64)>>
                 \o encodeFrom(s, i + 2)

\* encode of @stablelib/utf8, imported as encodeUTF8.
encodeUTF8(s) ==
    IF encodedLength(s, 1) < 0 THEN Thrown
    ELSE [kind |-> "bytes", bytes |-> encodeFrom(s, 1)]

\* decode of @stablelib/utf8 from position i on: the code units, or Thrown
\* for a sequence that is not valid UTF-8.
RECURSIVE decodeFrom(_, _)
decodeFrom(arr, i) ==
    IF i > Len(arr) THEN StringResult(<<>>)
    ELSE LET b == arr[i]
             more == IF b < 128 THEN 0 ELSE IF b < 224 THEN 1
                     ELSE IF b < 240 THEN 2 ELSE IF b < 248 THEN 3 ELSE -1
         IN IF more < 0 \/ i + more > Len(arr) THEN Thrown
            ELSE IF \E j \in 1..more : (arr[i + j] \div 64) # 2 THEN Thrown
            ELSE LET p == CASE more = 0 -> b
                            [] more = 1 -> ((b % 32)) * 64 + (arr[i + 1] % 64)
                            [] more = 2 -> ((b % 16)) * 4096 + ((arr[i + 1] % 64)) * 64
                                           + (arr[i + 2] % 64)
                            [] more = 3 -> ((b % 16)) * 262144
                                           + ((arr[i + 1] % 64)) * 4096
                                           + ((arr[i + 2] % 64)) * 64 + (arr[i + 3] % 64)
                     min == CASE more = 0 -> 0 [] more = 1 -> 128
                              [] more = 2 -> 2048 [] more = 3 -> 65536
                     units == IF p >= 65536
                              THEN <<55296 + ((p - 65536) \div 1024),
                                     56320 + ((p - 65536) % 1024)>>
                              ELSE <<p>>
                     rest == decodeFrom(arr, i + more + 1)
                 IN IF p < min \/ (p >= 55296 /\ p <= 57343) \/ p > 1114111
                    THEN Thrown
                    ELSE IF rest = Thrown THEN Thrown
                    ELSE StringResult(units \o rest.text)

\* decode of @stablelib/utf8, imported as decodeUTF8.
decodeUTF8(arr) == decodeFrom(arr, 1)

\* bs58 encode and decode: decode returns the bytes encode was given and
\* throws on a string that is not base58.
encodeBase58(bytes) == [kind |-> "base58", of |-> bytes]

decodeBase58(string) == IF string.kind = "base58" THEN string.of ELSE Thrown

\* AdvancedCrypto.encryptWithSharedSecret; message is the string as its code
\* units, nonce is what randomBytes returned.
encryptWithSharedSecret(message, sharedSecret, nonce) ==
    LET messageBytes == encodeUTF8(message) IN
    IF messageBytes = Thrown THEN Thrown
    ELSE [encrypted |-> encodeBase58(secretbox(messageBytes.bytes, nonce, sharedSecret)),
          nonce |-> encodeBase58(nonce)]

\* AdvancedCrypto.decryptWithSharedSecret: null when a decoding throws or
\* the box does not open.
decryptWithSharedSecret(encryptedData, sharedSecret) ==
    LET encryptedBytes == decodeBase58(encryptedData.encrypted)
        nonceBytes == decodeBase58(encryptedData.nonce)
    IN IF encryptedBytes = Thrown \/ nonceBytes = Thrown THEN NullResult
       ELSE LET decrypted == secretboxOpen(encryptedBytes, nonceBytes, sharedSecret)
            IN IF decrypted = NullResult THEN NullResult
               ELSE LET text == decodeUTF8(decrypted.bytes)
                    IN IF text = Thrown THEN NullResult ELSE text

\* A socket object of socket.io-client: connected is its connected flag,
\* closed is set by its disconnect() method, sendBuffer holds what was emitted
\* on it while it was not connected.
NewSocket == [connected |-> FALSE, closed |-> FALSE, sendBuffer |-> <<>>]

\* RealtimeService.isConnected
isConnected(svc, socks) ==
    IF svc.socket = 0 THEN FALSE ELSE socks[svc.socket].connected

\* RealtimeService.sendRealtimeMessage on the network net = [sockets, wire]:
\* this.socket?.emit('message', message).  No socket: nothing happens.  A
\* connected socket transmits; any other socket buffers.
sendRealtimeMessage(svc, net, message) ==
    IF svc.socket = 0 THEN net
    ELSE IF net.sockets[svc.socket].connected
         THEN [net EXCEPT !.wire = Append(net.wire, message)]
         ELSE [net EXCEPT !.sockets[svc.socket].sendBuffer =
                              Append(net.sockets[svc.socket].sendBuffer, message)]

\* RealtimeService.processMessageQueue: shift and send until the queue is empty.
RECURSIVE DrainQueue(_, _, _)
DrainQueue(svc, net, queue) ==
    IF queue = <<>> THEN net
    ELSE DrainQueue(svc, sendRealtimeMessage(svc, net, Head(queue)), Tail(queue))

processMessageQueue(svc) == [svc EXCEPT !.messageQueue = <<>>]

\* RealtimeService.startHeartbeat: the field takes the new interval; an
\* interval it referred to keeps running.
startHeartbeat(svc, tms) == [svc EXCEPT !.heartbeatInterval = Len(tms) + 1]

\* this.onConnectionStatusChange?.(status), the handler being the store's
\* set({ connectionStatus: status }).
Surface(s, svc, status) ==
    IF svc.onConnectionStatusChange THEN [s EXCEPT !.connectionStatus = status]
    ELSE s

\* A bug of the delay: the cap is missing.
scheduleReconnectUncapped(svc, tos) ==
    IF svc.reconnectAttempts < maxReconnectAttempts
    THEN [service |-> [svc EXCEPT !.reconnectAttempts = @ + 1],
          timeouts |-> Append(tos, [delay |-> 1000 * 2^(svc.reconnectAttempts + 1),
                                    pending |-> TRUE])]
    ELSE [service |-> svc, timeouts |-> tos]

\* RealtimeService.scheduleReconnect: the service and the scheduled callbacks
\* it leaves.
scheduleReconnect(svc, tos) ==
    IF svc.reconnectAttempts < maxReconnectAttempts
    THEN LET attempts == svc.reconnectAttempts + 1
             power == 1000 * 2^attempts
             delay == IF power < 30000 THEN power ELSE 30000
         IN [service |-> [svc EXCEPT !.reconnectAttempts = attempts],
             timeouts |-> Append(tos, [delay |-> delay, pending |-> TRUE])]
    ELSE [service |-> svc, timeouts |-> tos]

\* The local user, the chat and the recipient of the sending model.
Recipient == UserB

SendChatId == DirectChatIdOf(SortPair(Self, Recipient))

\* Promise continuations run before the next event is dispatched.
MicrotaskPending == \E k \in 1..Len(calls) : calls[k].pc = "awaiting"

\* The store after the application shell opened the chat with the recipient.
Init ==
    /\ store = CreateDirectChatStore(setCurrentUser(InitialStore, Profile(Self)),
                                     Self, Recipient, 1)
    /\ TransportInit
    /\ calls = <<>>
    /\ clock = 1
    /\ ids = 0
    /\ sns = InitialNameService
    /\ lastOp = Op("init", Null, 0)

\* initializeRealtime: connect(currentUser.publicKey) and the handlers.  The
\* socket a previous call left in this.socket is not closed.
InitializeRealtime ==
    /\ ~MicrotaskPending
    /\ Len(sockets) < MaxSockets
    /\ store.currentUser # Null
    /\ service' = [service EXCEPT !.currentUser = store.currentUser.publicKey,
                                  !.socket = Len(sockets) + 1,
                                  !.onConnectionStatusChange = TRUE]
    /\ sockets' = Append(sockets, NewSocket)
    /\ lastOp' = Op("initializeRealtime", Null, Len(sockets) + 1)
    /\ UNCHANGED <<store, timers, timeouts, wire, calls, clock, ids, sns>>

\* The 'connect' event of socket i: socket.io sets connected and sends the
\* socket's buffer, then the handler runs: status, register, startHeartbeat,
\* processMessageQueue.
SocketConnect(i) ==
    /\ ~MicrotaskPending
    /\ ~sockets[i].closed
    /\ ~sockets[i].connected
    /\ Len(timers) < MaxTimers
    /\ LET flushed == [sockets |-> [sockets EXCEPT ![i].connected = TRUE,
                                                   ![i].sendBuffer = <<>>],
                       wire |-> wire \o sockets[i].sendBuffer]
           net == DrainQueue(service, flushed, service.messageQueue)
       IN /\ sockets' = net.sockets
          /\ wire' = net.wire
    /\ service' = processMessageQueue(startHeartbeat(service, timers))
    /\ timers' = Append(timers, TRUE)
    /\ store' = Surface(store, service, "connected")
    /\ lastOp' = Op("connect", Null, i)
    /\ UNCHANGED <<timeouts, calls, clock, ids, sns>>

\* The 'disconnect' event of socket i (the connection was lost).
SocketDisconnect(i) ==
    /\ ~MicrotaskPending
    /\ ~sockets[i].closed
    /\ sockets[i].connected
    /\ sockets' = [sockets EXCEPT ![i].connected = FALSE]
    /\ store' = Surface(store, service, "disconnected")
    /\ lastOp' = Op("disconnect", Null, i)
    /\ UNCHANGED <<service, timers, timeouts, wire, calls, clock, ids, sns>>

\* RealtimeService.disconnect()
Disconnect ==
    /\ ~MicrotaskPending
    /\ Len(sockets) > 0
    /\ sockets' = IF service.socket = 0 THEN sockets
                  ELSE [sockets EXCEPT ![service.socket].connected = FALSE,
                                       ![service.socket].closed = TRUE]
    /\ timers' = IF service.heartbeatInterval = 0 THEN timers
                 ELSE [timers EXCEPT ![service.heartbeatInterval] = FALSE]
    /\ service' = [service EXCEPT !.socket = 0, !.heartbeatInterval = 0]
    /\ store' = Surface(store, service, "disconnected")
    /\ lastOp' = Op("serviceDisconnect", Null, 0)
    /\ UNCHANGED <<timeouts, wire, calls, clock, ids, sns>>

\* sendEncryptedMessage(chatId, content, recipientKey) up to its await: the
\* loading flag, the key, the encryption, the optimistic append, and the body
\* of realtimeService.sendMessage, which resolves (the envelope was emitted or
\* queued) or rejects (an exception before either).
SendStart(content, resolves) ==
    /\ Len(calls) < MaxSends
    /\ store.currentUser # Null
    /\ LET recipientKey == Recipient
           sharedKey == IF recipientKey \in DOMAIN store.encryptionKeys
                        THEN store.encryptionKeys[recipientKey] ELSE ZeroBytes
           encryptedData == encryptWithSharedSecret(content.text, sharedKey,
                                                    RandomBytes(ids + 1))
           message == [id |-> ids + 2,
                       sender |-> store.currentUser.publicKey,
                       senderUsername |-> store.currentUser.username,
                       recipient |-> recipientKey,
                       content |-> content,
                       encrypted |-> encryptedData.encrypted,
                       nonce |-> encryptedData.nonce,
                       timestamp |-> clock,
                       status |-> "sending"]
           messageId == ids + 3
           realtimeMessage == [id |-> messageId,
                               type |-> "message",
                               from |-> service.currentUser,
                               to |-> recipientKey,
                               data |-> [messageId |-> messageId,
                                         content |-> content,
                                         senderUsername |-> store.currentUser.username,
                                         timestamp |-> clock],
                               timestamp |-> clock]
           online == isConnected(service, sockets)
           keyed == [store EXCEPT
                       !.sendingMessage = TRUE,
                       !.encryptionKeys = Put(store.encryptionKeys, recipientKey,
                                              sharedKey)]
       IN /\ store' = addMessage(keyed, SendChatId, message)
          /\ wire' = IF resolves /\ online THEN Append(wire, realtimeMessage)
                     ELSE wire
          /\ service' = IF resolves /\ ~online
                        THEN [service EXCEPT !.messageQueue =
                                  Append(service.messageQueue, realtimeMessage)]
                        ELSE service
          /\ calls' = Append(calls, [pc |-> "awaiting",
                                     chatId |-> SendChatId,
                                     id |-> message.id,
                                     resolves |-> resolves,
                                     envelope |-> IF resolves THEN messageId ELSE 0,
                                     queued |-> resolves /\ ~online])
          /\ lastOp' = Op("sendEncryptedMessage", SendChatId, message.id)
    /\ ids' = ids + 3
    /\ UNCHANGED <<sockets, timers, timeouts, clock, sns>>

\* The continuation of the oldest pending call: updateMessage to 'sent' when
\* the promise resolved, the rethrow when it rejected, then the finally block.
SendFinish ==
    /\ MicrotaskPending
    /\ LET k == CHOOSE j \in 1..Len(calls) :
                   /\ calls[j].pc = "awaiting"
                   /\ \A h \in 1..(j - 1) : calls[h].pc # "awaiting"
           done == IF calls[k].resolves
                   THEN updateMessage(store, calls[k].chatId, calls[k].id,
                                      [status |-> "sent"])
                   ELSE store
       IN /\ store' = [done EXCEPT !.sendingMessage = FALSE]
          /\ calls' = [calls EXCEPT ![k].pc = IF calls[k].resolves THEN "returned"
                                              ELSE "threw"]
          /\ lastOp' = Op("sendEncryptedMessageEnd", calls[k].chatId, calls[k].id)
    /\ UNCHANGED <<transportVars, clock, ids, sns>>

\* The text the user sends: "hi".
SentText == <<104, 105>>

Send == \E resolves \in BOOLEAN : SendStart(Plain(SentText), resolves)

\* Time passes between two events.
Tick ==
    /\ ~MicrotaskPending
    /\ clock < MaxTime
    /\ clock' = clock + 1
    /\ lastOp' = Op("tick", Null, 0)
    /\ UNCHANGED <<store, transportVars, calls, ids, sns>>

ConnectEvent == \E i \in 1..Len(sockets) : SocketConnect(i)

DisconnectEvent == \E i \in 1..Len(sockets) : SocketDisconnect(i)

Next ==
    \/ InitializeRealtime
    \/ ConnectEvent
    \/ DisconnectEvent
    \/ Disconnect
    \/ Send
    \/ SendFinish
    \/ Tick

Spec == Init /\ [][Next]_vars

\* ------------------------------------------------------------ reconnection
\* initializeRealtime when io() throws inside connect(): the catch block
\* surfaces 'disconnected' through the handler, if one is registered yet, and
\* calls scheduleReconnect; initializeRealtime then registers the handlers.
ConnectThrows ==
    /\ store.currentUser # Null
    /\ LET attempt == [service EXCEPT !.currentUser = store.currentUser.publicKey]
           next == scheduleReconnect(attempt, timeouts)
       IN /\ store' = Surface(store, service, "disconnected")
          /\ service' = [next.service EXCEPT !.onConnectionStatusChange = TRUE]
          /\ timeouts' = next.timeouts
    /\ lastOp' = Op("connectThrows", Null, 0)
    /\ UNCHANGED <<sockets, timers, wire, calls, clock, ids, sns>>

\* The callback scheduleReconnect gave to setTimeout: 'reconnecting', then
\* connect(currentUser), in which io() returns a socket or throws.
ReconnectTimeout(k, throws) ==
    /\ timeouts[k].pending
    /\ throws \/ Len(sockets) < MaxSockets
    /\ LET ran == [timeouts EXCEPT ![k].pending = FALSE]
           next == scheduleReconnect(service, ran)
       IN IF throws
          THEN /\ store' = Surface(store, service, "disconnected")
               /\ service' = next.service
               /\ timeouts' = next.timeouts
               /\ sockets' = sockets
          ELSE /\ store' = Surface(store, service, "reconnecting")
               /\ service' = [service EXCEPT !.socket = Len(sockets) + 1]
               /\ timeouts' = ran
               /\ sockets' = Append(sockets, NewSocket)
    /\ lastOp' = Op("reconnectTimeout", Null, IF throws THEN 0 ELSE 1)
    /\ UNCHANGED <<timers, wire, calls, clock, ids, sns>>

\* The 'reconnect_attempt' event of socket i, which has no connection.
SocketReconnectAttempt(i) ==
    /\ ~sockets[i].closed
    /\ ~sockets[i].connected
    /\ store' = Surface(store, service, "reconnecting")
    /\ lastOp' = Op("reconnect_attempt", Null, i)
    /\ UNCHANGED <<transportVars, calls, clock, ids, sns>>

ReconnectTimeoutEvent ==
    \E k \in 1..Len(timeouts), throws \in BOOLEAN : ReconnectTimeout(k, throws)

ReconnectAttemptEvent == \E i \in 1..Len(sockets) : SocketReconnectAttempt(i)

ReconnectNext ==
    \/ InitializeRealtime
    \/ ConnectThrows
    \/ ReconnectTimeoutEvent
    \/ ConnectEvent
    \/ DisconnectEvent
    \/ ReconnectAttemptEvent
    \/ Disconnect

SpecReconnect == Init /\ [][ReconnectNext]_vars

\* C11: the delays scheduleReconnect has given to setTimeout, in the order of
\* the failed attempts, never decrease and never exceed 30000 ms; there is one
\* per counted attempt and never more than maxReconnectAttempts of them.
C11_BackoffIsMonotoneAndCapped ==
    /\ Len(timeouts) = service.reconnectAttempts
    /\ Len(timeouts) <= maxReconnectAttempts
    /\ \A k \in 1..Len(timeouts) : timeouts[k].delay <= 30000
    /\ \A j, k \in 1..Len(timeouts) :
          j < k => timeouts[j].delay <= timeouts[k].delay

\* C11 witness: the attempt budget is used up, the last scheduled reconnect
\* has run and failed, and nothing further is scheduled.
C11_BudgetExhausted ==
    /\ service.reconnectAttempts = maxReconnectAttempts
    /\ lastOp = Op("reconnectTimeout", Null, 0)
    /\ \A k \in 1..Len(timeouts) : ~timeouts[k].pending
    /\ timeouts[Len(timeouts)].delay = 30000

\* C12: when the 'disconnect' event of a socket reports a lost connection,
\* the status surfaced is 'reconnecting' as long as reconnect attempts remain,
\* and 'disconnected' only when the attempt budget is used up.
C12_LossSurfacesReconnecting ==
    [][\A i \in 1..Len(sockets) :
         SocketDisconnect(i) =>
           store'.connectionStatus =
             IF service.reconnectAttempts < maxReconnectAttempts
             THEN "reconnecting" ELSE "disconnected"]_vars

\* ------------------------------------------------------------- encryption
\* Longest plaintext, in code units, the encryption model draws.
MaxTextLen == 2

\* Code units of A, e-acute, the euro sign, and the two halves of U+1F600.
CodeUnits == {65, 233, 8364, 55357, 56832}

\* Every JavaScript string over the code units, up to the longest.
Plaintexts ==
    UNION {[1..n -> CodeUnits] : n \in 0..MaxTextLen}

\* 32-byte keys: the all-zero key and a generated one.
SecretKeys == {ZeroBytes, RandomBytes(32)}

\* One plaintext and one key; nothing has been called yet.
CryptoInit ==
    /\ \E message \in Plaintexts, key \in SecretKeys :
          calls = <<[pc |-> "start", message |-> message, key |-> key,
                     encrypted |-> NullResult, tampered |-> FALSE,
                     with |-> key, result |-> NullResult]>>
    /\ store = InitialStore
    /\ TransportInit
    /\ clock = 1
    /\ ids = 0
    /\ sns = InitialNameService
    /\ lastOp = Op("init", Null, 0)

CryptoFrame == UNCHANGED <<store, transportVars, clock, sns>>

\* encryptWithSharedSecret(message, key)
Encrypt ==
    /\ calls[1].pc = "start"
    /\ LET encrypted == encryptWithSharedSecret(calls[1].message, calls[1].key,
                                                RandomBytes(ids + 1))
       IN calls' = [calls EXCEPT ![1].encrypted = encrypted,
                                 ![1].pc = IF encrypted = Thrown THEN "threw"
                                           ELSE "encrypted"]
    /\ ids' = ids + 1
    /\ lastOp' = Op("encryptWithSharedSecret", Null, 0)
    /\ CryptoFrame

\* The nonce of the encrypted data is replaced on the way.
Tamper ==
    /\ calls[1].pc = "encrypted"
    /\ ~calls[1].tampered
    /\ calls' = [calls EXCEPT ![1].encrypted.nonce = encodeBase58(RandomBytes(ids + 1)),
                              ![1].tampered = TRUE]
    /\ ids' = ids + 1
    /\ lastOp' = Op("tamper", Null, 0)
    /\ CryptoFrame

\* decryptWithSharedSecret(encrypted, key)
Decrypt ==
    \E key \in SecretKeys :
        /\ calls[1].pc = "encrypted"
        /\ calls' = [calls EXCEPT
                       ![1].result = decryptWithSharedSecret(calls[1].encrypted, key),
                       ![1].with = key,
                       ![1].pc = "decrypted"]
        /\ lastOp' = Op("decryptWithSharedSecret", Null, 0)
        /\ UNCHANGED ids
        /\ CryptoFrame

CryptoNext ==
    \/ Encrypt
    \/ Tamper
    \/ Decrypt

SpecCrypto == CryptoInit /\ [][CryptoNext]_vars

\* C15: for every plaintext and every key, encryptWithSharedSecret returns,
\* and decryptWithSharedSecret of what it returned, under the same key,
\* returns the plaintext.
C15_DecryptOfEncryptIsIdentity ==
    /\ calls[1].pc # "threw"
    /\ ( /\ calls[1].pc = "decrypted"
         /\ calls[1].with = calls[1].key
         /\ ~calls[1].tampered )
       => calls[1].result = StringResult(calls[1].message)

\* -------------------------------------------------------- inbound traffic
\* The types an envelope is sent with, and one no sender uses.
EnvelopeTypes ==
    {"message", "typing", "presence", "delivery_receipt", "read_receipt", "other"}

\* state.encryptionKeys[userId], or the all-zero key sendEncryptedMessage
\* falls back to.
SharedKeyOf(s, userId) ==
    IF userId \in DOMAIN s.encryptionKeys THEN s.encryptionKeys[userId]
    ELSE ZeroBytes

\* A 'message' envelope that carries ciphertext and nonce.
EncryptedEnvelope(id, from, to, encryptedData, timestamp) ==
    [id |-> id,
     type |-> "message",
     from |-> from,
     to |-> to,
     data |-> [messageId |-> id,
               content |-> encryptedData.encrypted,
               nonce |-> encryptedData.nonce,
               senderUsername |-> Plain("name"),
               timestamp |-> timestamp],
     timestamp |-> timestamp]

\* What the relay may deliver on the 'message' event: envelopes of every
\* type; 'message' envelopes with plaintext, with ciphertext made under the
\* all-zero key both sides fall back to, and with ciphertext made under a key
\* the receiver does not hold.
InboundEnvelopes(selfId) ==
    {[Envelope(id, from, selfId, Plain("hi"), 1) EXCEPT !.type = type] :
        id \in 1..MaxMsgId, from \in Users, type \in EnvelopeTypes}
    \cup
    {EncryptedEnvelope(id, from, selfId,
                       encryptWithSharedSecret(SentText, key, RandomBytes(1)), 1) :
        id \in 1..MaxMsgId, from \in Users, key \in SecretKeys}

\* The receiver cannot decrypt what the envelope carries.
FailsDecryption(s, payload) ==
    /\ "nonce" \in DOMAIN payload.data
    /\ decryptWithSharedSecret([encrypted |-> payload.data.content,
                                nonce |-> payload.data.nonce],
                               SharedKeyOf(s, payload.from)) = NullResult

DeliverAny == \E payload \in InboundEnvelopes(store.currentUser.publicKey) :
                  OnSocketMessage(payload)

\* The socket's 'presence' event: the service calls the store's handler.
OnSocketPresence(presence) ==
    /\ store' = setPeerOnline(store, presence.userId, presence.status = "online")
    /\ lastOp' = Op("onPresence", presence.userId, 0)
    /\ RouteFrame

PresenceEvent ==
    \E userId \in Users, status \in {"online", "away", "busy", "offline"} :
        OnSocketPresence([userId |-> userId, status |-> status, lastSeen |-> clock])

\* removePeer(publicKey), a public operation of the store.
RemovePeer ==
    \E publicKey \in Users :
        /\ store' = removePeer(store, publicKey)
        /\ lastOp' = Op("removePeer", publicKey, 0)
        /\ RouteFrame

InboundNext ==
    \/ DeliverAny
    \/ PresenceEvent
    \/ RemovePeer

SpecInbound == RouteInit /\ [][InboundNext]_vars

\* C13: a step that delivers a 'message' envelope whose ciphertext the
\* receiver cannot authenticate and decrypt changes no chat and no stored
\* sequence: the message is dropped.
C13_UndecryptableIsDropped ==
    [][\A payload \in InboundEnvelopes(store.currentUser.publicKey) :
         (OnSocketMessage(payload) /\ FailsDecryption(store, payload))
           => /\ store'.messages = store.messages
              /\ store'.chats = store.chats]_vars

\* The registration method of the handler an envelope type belongs to.
HandlerOf(type) ==
    CASE type = "message" -> "onMessage"
      [] type = "typing" -> "onTyping"
      [] type = "presence" -> "onPresence"
      [] type = "delivery_receipt" -> "onDelivery"
      [] type = "read_receipt" -> "onRead"
      [] OTHER -> "none"

\* C14: a step that delivers an envelope calls the handler of the envelope's
\* type, and no handler for a type that has none.
C14_HandlerOfTypeIsCalled ==
    [][\A payload \in InboundEnvelopes(store.currentUser.publicKey) :
         OnSocketMessage(payload) => lastOp'.op = HandlerOf(payload.type)]_vars

\* ----------------------------------------------------------- persistence
\* Shared keys the persistence model lets generateSharedKey draw.
MaxKeys == 2

\* The store after the application shell opened the chat with the recipient;
\* the operations below change what partialize keeps and what it leaves out.
PersistInit == Init

PersistFrame == UNCHANGED <<transportVars, calls, sns>>

GenerateSharedKey ==
    \E userId \in Users :
        /\ ids < MaxKeys
        /\ store' = generateSharedKey(store, userId, RandomBytes(ids + 1))
        /\ ids' = ids + 1
        /\ lastOp' = Op("generateSharedKey", Null, 0)
        /\ UNCHANGED clock
        /\ PersistFrame

SetTyping ==
    \E userId \in Users :
        /\ store' = setTyping(store, [chatId |-> SendChatId,
                                      userId |-> userId,
                                      username |-> Plain("name"),
                                      timestamp |-> clock])
        /\ lastOp' = Op("setTyping", Null, 0)
        /\ UNCHANGED <<clock, ids>>
        /\ PersistFrame

ClearTyping ==
    \E userId \in Users :
        /\ store' = clearTyping(store, SendChatId, userId)
        /\ lastOp' = Op("clearTyping", Null, 0)
        /\ UNCHANGED <<clock, ids>>
        /\ PersistFrame

ToggleMessageSelection ==
    \E messageId \in 1..MaxMsgId :
        /\ store' = toggleMessageSelection(store, messageId)
        /\ lastOp' = Op("toggleMessageSelection", Null, 0)
        /\ UNCHANGED <<clock, ids>>
        /\ PersistFrame

ClearSelectedMessages ==
    /\ store' = clearSelectedMessages(store)
    /\ lastOp' = Op("clearSelectedMessages", Null, 0)
    /\ UNCHANGED <<clock, ids>>
    /\ PersistFrame

SaveDraft ==
    \E content \in {Plain(""), Plain("hi")} :
        /\ store' = saveDraft(store, SendChatId, content)
        /\ lastOp' = Op("saveDraft", Null, 0)
        /\ UNCHANGED <<clock, ids>>
        /\ PersistFrame

SyncMessages ==
    /\ store' = syncMessages(store, clock)
    /\ lastOp' = Op("syncMessages", Null, 0)
    /\ UNCHANGED <<clock, ids>>
    /\ PersistFrame

PersistNext ==
    \/ GenerateSharedKey
    \/ SetTyping
    \/ ClearTyping
    \/ ToggleMessageSelection
    \/ ClearSelectedMessages
    \/ SaveDraft
    \/ SyncMessages
    \/ Tick

SpecPersist == PersistInit /\ [][PersistNext]_vars

\* C16: in every state the snapshot partialize returns has exactly the fields
\* currentUser, chats, messages, peers, drafts, lastSyncTimestamp, each with the
\* store's value, and encryptionKeys, which is empty whatever the key cache
\* holds; selectedMessages and typingIndicators are not among its fields.
C16_SnapshotLeavesOutKeysAndUiState ==
    LET snapshot == partialize(store)
        kept == {"currentUser", "chats", "messages", "peers", "drafts",
                 "lastSyncTimestamp"}
    IN /\ DOMAIN snapshot = kept \cup {"encryptionKeys"}
       /\ DOMAIN snapshot.encryptionKeys = {}
       /\ {"selectedMessages", "typingIndicators"} \cap DOMAIN snapshot = {}
       /\ \A f \in kept : snapshot[f] = store[f]

\* C16 witness: the key cache, the selection, the typing indicators and the
\* drafts all hold something.
C16_CacheAndUiStateHeld ==
    /\ DOMAIN store.encryptionKeys = Users
    /\ store.selectedMessages # {}
    /\ store.typingIndicators # <<>>
    /\ DOMAIN store.drafts # {}
    /\ store.lastSyncTimestamp > 0

\* ------------------------------------------------- claims on the sending
\* How many elements of a sequence of envelopes carry the id.
CountId(envelopes, id) ==
    Cardinality({i \in 1..Len(envelopes) : envelopes[i].id = id})

RECURSIVE CountBuffered(_, _)
CountBuffered(socks, id) ==
    IF socks = <<>> THEN 0
    ELSE (IF Head(socks).closed THEN 0 ELSE CountId(Head(socks).sendBuffer, id))
         + CountBuffered(Tail(socks), id)

\* The status of the message a call appended.
StatusOfCall(k) ==
    LET msgs == MessagesOf(store, calls[k].chatId)
    IN msgs[CHOOSE i \in 1..Len(msgs) : msgs[i].id = calls[k].id].status

\* C2: an envelope that sendMessage queued while the client was not connected
\* is never transmitted twice and never lost: it waits in the offline queue or
\* in the buffer of a socket that can still connect, or it was transmitted once.
C2_QueuedIsEmittedExactlyOnce ==
    \A k \in 1..Len(calls) :
        calls[k].queued =>
            /\ CountId(wire, calls[k].envelope) <= 1
            /\ CountId(wire, calls[k].envelope)
                 + CountId(service.messageQueue, calls[k].envelope)
                 + CountBuffered(sockets, calls[k].envelope) = 1

\* C5: once sendEncryptedMessage has completed with the transport's rejection,
\* the message it appended has the status 'failed'.
C5_RejectedSendIsFailed ==
    \A k \in 1..Len(calls) :
        calls[k].pc = "threw" => StatusOfCall(k) = "failed"

\* C6: while the envelope of a send waits in the offline queue, the message
\* the send appended has the status 'sending'.
C6_QueuedIsStillSending ==
    \A k \in 1..Len(calls) :
        CountId(service.messageQueue, calls[k].envelope) > 0
            => StatusOfCall(k) = "sending"

\* C7: the content of every envelope transmitted to the relay is ciphertext,
\* never the plaintext.
C7_WireCarriesNoPlaintext ==
    \A i \in 1..Len(wire) : wire[i].data.content.kind # "plain"

\* The position on the wire of the envelope with the id (0: not transmitted).
WirePos(id) ==
    IF CountId(wire, id) = 0 THEN 0
    ELSE CHOOSE i \in 1..Len(wire) : wire[i].id = id

\* C20: when an envelope has been transmitted, every envelope that was queued
\* by an earlier send has been transmitted before it: the queue is drained in
\* the order of the sends, and ahead of everything sent later.
C20_QueueIsDrainedInSendOrder ==
    \A j, k \in 1..Len(calls) :
        ( /\ j < k
          /\ calls[j].queued
          /\ WirePos(calls[k].envelope) # 0 )
        => /\ WirePos(calls[j].envelope) # 0
           /\ WirePos(calls[j].envelope) < WirePos(calls[k].envelope)

\* ------------------------------------------------- direct-chat identifiers
\* Longest identifier, in code units, the identifier model draws.
MaxIdLen == 2

\* Identifiers as the relay and the address field hand them over: any
\* non-empty string; here over the letter A and the underscore.
IdStrings == UNION {[1..n -> {CharA, CharUnderscore}] : n \in 1..MaxIdLen}

\* Two clients: the user a opens a chat with b, the user d receives a message
\* of c.  Nothing has been called yet.
IdInit ==
    /\ \E a \in IdStrings, b \in IdStrings, c \in IdStrings, d \in IdStrings :
          calls = <<[pc |-> "start", a |-> a, b |-> b, c |-> c, d |-> d,
                     created |-> Null, routed |-> Null]>>
    /\ store = InitialStore
    /\ TransportInit
    /\ clock = 1
    /\ ids = 0
    /\ sns = InitialNameService
    /\ lastOp = Op("init", Null, 0)

IdFrame == UNCHANGED <<store, transportVars, clock, ids, sns>>

\* createDirectChat(b) on the client of a, which has no chat yet: the id of
\* the chat it adds.
CreateOnFirstClient ==
    /\ calls[1].created = Null
    /\ LET mine == setCurrentUser(InitialStore, Profile(calls[1].a))
           after == CreateDirectChatStore(mine, calls[1].a, calls[1].b, clock)
       IN calls' = [calls EXCEPT ![1].created = after.chats[1].id]
    /\ lastOp' = Op("createDirectChat", calls[1].b, 0)
    /\ IdFrame

\* The onMessage handler on the client of d, which has no chat yet, for a
\* message of c: the id of the chat it synthesizes.
RouteOnSecondClient ==
    /\ calls[1].routed = Null
    /\ LET mine == setCurrentUser(InitialStore, Profile(calls[1].d))
           payload == Envelope(1, calls[1].c, calls[1].d, Plain("hi"), clock)
           after == RouteInbound(mine, calls[1].d, InboundMessage(payload), clock)
       IN calls' = [calls EXCEPT ![1].routed = after.chats[1].id]
    /\ lastOp' = Op("onMessage", calls[1].c, 1)
    /\ IdFrame

IdNext ==
    \/ CreateOnFirstClient
    \/ RouteOnSecondClient

SpecIds == IdInit /\ [][IdNext]_vars

\* C21: when the id derived for the pair {a, b} equals the id derived for the
\* pair {c, d}, the two unordered pairs are the same pair.
C21_EqualIdsMeanEqualPairs ==
    ( /\ calls[1].created # Null
      /\ calls[1].created = calls[1].routed )
    => {calls[1].a, calls[1].b} = {calls[1].c, calls[1].d}

\* ------------------------------------------------- claims on the peers
\* state.peers.find(p => p.publicKey === key)
PeerOf(s, key) ==
    s.peers[CHOOSE i \in 1..Len(s.peers) :
                /\ s.peers[i].publicKey = key
                /\ \A j \in 1..(i - 1) : s.peers[j].publicKey # key]

\* C22: a peer record that a delivery makes for a sender the store did not
\* know is offline (isOnline false, status 'offline'), and a peer record is
\* online only if it was online before the step or the step is a presence
\* event.
C22_SynthesizedPeerIsOffline ==
    [][\A u \in Users :
         /\ (lastOp'.op = "onMessage" /\ ~HasPeer(store, u) /\ HasPeer(store', u))
               => /\ ~PeerOf(store', u).isOnline
                  /\ PeerOf(store', u).status = "offline"
         /\ ( /\ HasPeer(store', u)
              /\ PeerOf(store', u).isOnline
              /\ ~(HasPeer(store, u) /\ PeerOf(store, u).isOnline) )
               => lastOp'.op = "onPresence"]_vars

\* C23: after the onMessage handler has routed a message, the store has a
\* peer record for the message's sender, whether the handler synthesized the
\* direct chat or found it.
C23_RoutedSenderHasPeer ==
    lastOp.op = "onMessage" => HasPeer(store, lastOp.chatId)

\* ------------------------------------------ claims on the derived fields
\* The chat the onMessage handler adds a message of the sender to.
RoutedChatId(s, senderId) ==
    LET selfId == s.currentUser.publicKey
        found == FindDirectChat(s, selfId, senderId)
    IN IF found = 0 THEN DirectChatIdOf(SortPair(selfId, senderId))
       ELSE s.chats[found].id

\* chat.unreadCount of the chat with the id; a chat just made starts at 0.
UnreadOf(s, chatId) ==
    IF HasChat(s, chatId) THEN ChatById(s, chatId).unreadCount ELSE 0

\* C24: the addMessage of a delivery raises the unreadCount of the chat it
\* names by exactly one when that chat is not the active chat and does not
\* raise it when it is; the unreadCount of every other chat stays as it was.
C24_UnreadCountsOnlyInactive ==
    [][lastOp'.op = "onMessage" =>
         LET chatId == RoutedChatId(store, lastOp'.chatId) IN
         \A i \in 1..Len(store'.chats) :
            LET c == store'.chats[i] IN
            IF c.id = chatId
            THEN IF chatId = store.activeChat
                 THEN c.unreadCount <= UnreadOf(store, chatId)
                 ELSE c.unreadCount = UnreadOf(store, chatId) + 1
            ELSE HasChat(store, c.id) /\ c.unreadCount = UnreadOf(store, c.id)]_vars

\* C24 witness: a message has just been added to the active chat, whose
\* counter is 0, while another chat holds an unread message.
C24_ActiveChatAndUnreadChat ==
    /\ lastOp.op = "onMessage"
    /\ store.activeChat # Null
    /\ \E i, j \in 1..Len(store.chats) :
          /\ store.chats[i].id = store.activeChat
          /\ store.chats[i].lastMessage # Null
          /\ store.chats[i].lastMessage[1].sender = lastOp.chatId
          /\ store.chats[i].lastMessage[1].id = lastOp.arg
          /\ store.chats[i].unreadCount = 0
          /\ store.chats[j].id # store.activeChat
          /\ store.chats[j].unreadCount = 1

\* ------------------------------------------- claims on the send procedure
\* C25: the id under which a send stored its local message is the id of the
\* envelope it handed to the transport, which is the id the recipient stores.
C25_LocalIdIsEnvelopeId ==
    \A k \in 1..Len(calls) :
        calls[k].envelope # 0 =>
            /\ calls[k].envelope = calls[k].id
            /\ \A i \in 1..Len(wire) :
                  wire[i].id = calls[k].envelope
                      => InboundMessage(wire[i]).id = calls[k].id

\* C26: after an addMessage on a chat of the store, the chat's lastMessage is
\* the final element of the chat's stored sequence, which is sorted by
\* timestamp, and lastActivity is that element's timestamp.
C26_LastMessageIsFinalElement ==
    (lastOp.op = "addMessage" /\ HasChat(store, lastOp.chatId)) =>
        LET msgs == MessagesOf(store, lastOp.chatId)
            chat == ChatById(store, lastOp.chatId)
        IN /\ chat.lastMessage = <<msgs[Len(msgs)]>>
           /\ chat.lastActivity = msgs[Len(msgs)].timestamp

\* ----------------------------------------------- claims on disconnect()
\* C27: in the state disconnect() leaves, the next event, unless it is a call
\* of connect() or of disconnect(), leaves the surfaced status 'disconnected'
\* and opens no connection: no reconnect timer and no callback of an earlier
\* socket surfaces 'reconnecting' or creates a socket.
C27_DisconnectedStaysDisconnected ==
    [][( /\ lastOp.op = "serviceDisconnect"
         /\ lastOp'.op \notin {"initializeRealtime", "connectThrows",
                               "serviceDisconnect"} )
       => /\ store'.connectionStatus = "disconnected"
          /\ Len(sockets') = Len(sockets)
          /\ service'.socket = 0]_vars

\* The heartbeat intervals that are running.
ActiveHeartbeats == {i \in 1..Len(timers) : timers[i]}

\* C28: at most one heartbeat interval is running at any time, and none in
\* the state disconnect() leaves.
C28_AtMostOneHeartbeat ==
    /\ Cardinality(ActiveHeartbeats) <= 1
    /\ lastOp.op = "serviceDisconnect" => ActiveHeartbeats = {}

\* C29: loading.sendingMessage is true exactly while a sendEncryptedMessage
\* call has started and not completed, also when two calls overlap at the
\* await.
C29_LoadingWhileInFlight ==
    store.sendingMessage = (\E k \in 1..Len(calls) : calls[k].pc = "awaiting")

\* ---------------------------------------------------------- name service
\* registerUsername calls the name-service model issues, and how far its
\* clock runs.  One unit of this clock is the registration period of 365 days.
MaxRegs == 2
MaxNameTime == 3

\* 365 * 24 * 60 * 60 * 1000 ms, in units of the name service's clock.
RegistrationPeriod == 1

\* String.prototype.toLowerCase on the code units A-Z.
toLowerCase(s) ==
    [i \in 1..Len(s) |-> IF s[i] >= 65 /\ s[i] <= 90 THEN s[i] + 32 ELSE s[i]]

\* /^[a-zA-Z0-9_-]+$/ on one code unit.
IsNameChar(c) ==
    \/ c >= 97 /\ c <= 122
    \/ c >= 65 /\ c <= 90
    \/ c >= 48 /\ c <= 57
    \/ c = 95
    \/ c = 45

\* 'admin', 'root', 'system', 'solana', 'sol', 'chat', 'support', 'help'
ReservedNames ==
    {<<97, 100, 109, 105, 110>>,
     <<114, 111, 111, 116>>,
     <<115, 121, 115, 116, 101, 109>>,
     <<115, 111, 108, 97, 110, 97>>,
     <<115, 111, 108>>,
     <<99, 104, 97, 116>>,
     <<115, 117, 112, 112, 111, 114, 116>>,
     <<104, 101, 108, 112>>}

\* validateUsername: valid, or the error it reports.
validateUsername(username) ==
    IF Len(username) < 3
    THEN [valid |-> FALSE, error |-> "Username must be at least 3 characters long"]
    ELSE IF Len(username) > 32
    THEN [valid |-> FALSE, error |-> "Username must be less than 32 characters long"]
    ELSE IF \E i \in 1..Len(username) : ~IsNameChar(username[i])
    THEN [valid |-> FALSE,
          error |-> "Username can only contain letters, numbers, underscores, and hyphens"]
    ELSE IF \/ username[1] \in {45, 95}
            \/ username[Len(username)] \in {45, 95}
    THEN [valid |-> FALSE,
          error |-> "Username cannot start or end with special characters"]
    ELSE IF toLowerCase(username) \in ReservedNames
    THEN [valid |-> FALSE, error |-> "This username is reserved"]
    ELSE [valid |-> TRUE, error |-> ""]

\* new PublicKey(walletAddress) returns: the address is base58 (the length
\* of a key is not modelled, the addresses are abbreviated).
IsPublicKey(walletAddress) ==
    /\ walletAddress # <<>>
    /\ \A i \in 1..Len(walletAddress) : walletAddress[i] # CharUnderscore

\* Map.prototype.delete
MapDelete(map, key) == [k \in DOMAIN map \ {key} |-> map[k]]

\* saveToStorage: the two maps are written to localStorage.
saveToStorage(n) ==
    [n EXCEPT !.storage = <<[nameRegistry |-> n.nameRegistry,
                             reverseRegistry |-> n.reverseRegistry]>>]

\* { success: false, error }
Failure(error) == [success |-> FALSE, error |-> error]

\* registerUsername up to its await: the result it returns at once, or
\* Undefined when it has called signTransaction and waits.
registerUsernameChecks(n, username, walletAddress) ==
    LET validation == validateUsername(username) IN
    IF ~validation.valid THEN Failure(validation.error)
    ELSE IF toLowerCase(username) \in DOMAIN n.nameRegistry
    THEN Failure("Username is already taken")
    ELSE IF walletAddress \in DOMAIN n.reverseRegistry
    THEN Failure("Wallet already has a registered username")
    ELSE IF ~IsPublicKey(walletAddress)
    THEN Failure("Failed to register username")
    ELSE Undefined

\* registerUsername after its await, signTransaction having resolved: the
\* record is written to both maps and saved.
registerUsernameRecord(n, username, walletAddress, now) ==
    LET domain == toLowerCase(username)
        record == [domain |-> domain,
                   owner |-> walletAddress,
                   resolver |-> walletAddress,
                   createdAt |-> now,
                   expiresAt |-> now + RegistrationPeriod]
    IN saveToStorage([n EXCEPT
                        !.nameRegistry = Put(n.nameRegistry, domain, record),
                        !.reverseRegistry = Put(n.reverseRegistry, walletAddress,
                                                domain)])

\* The expiry branch shared by resolveUsername and isUsernameAvailable: the
\* record of the name is dropped with the reverse entry of its owner.
resolveUsername(n, username, now) ==
    LET domain == toLowerCase(username) IN
    IF domain \notin DOMAIN n.nameRegistry THEN n
    ELSE IF now > n.nameRegistry[domain].expiresAt
    THEN saveToStorage([n EXCEPT
             !.nameRegistry = MapDelete(n.nameRegistry, domain),
             !.reverseRegistry = MapDelete(n.reverseRegistry,
                                           n.nameRegistry[domain].owner)])
    ELSE n

isUsernameAvailable(n, username, now) ==
    IF ~validateUsername(username).valid THEN n
    ELSE resolveUsername(n, username, now)

reverseResolve(n, walletAddress, now) ==
    IF walletAddress \notin DOMAIN n.reverseRegistry THEN n
    ELSE LET username == n.reverseRegistry[walletAddress] IN
         IF \/ username \notin DOMAIN n.nameRegistry
            \/ now > n.nameRegistry[username].expiresAt
         THEN saveToStorage([n EXCEPT
                  !.nameRegistry = MapDelete(n.nameRegistry, username),
                  !.reverseRegistry = MapDelete(n.reverseRegistry, walletAddress)])
         ELSE n

\* Usernames a caller may pass: 'bob', 'Bob', 'eve', 'sol' (reserved), 'ab'.
InputUsernames ==
    {<<98, 111, 98>>, <<66, 111, 98>>, <<101, 118, 101>>,
     <<115, 111, 108>>, <<97, 98>>}

\* Wallet addresses a caller may pass: two keys and a string that is no key.
InputWallets == Users \cup {<<CharUnderscore>>}

NameInit ==
    /\ store = InitialStore
    /\ TransportInit
    /\ calls = <<>>
    /\ clock = 1
    /\ ids = 0
    /\ sns = InitialNameService
    /\ lastOp = Op("init", Null, 0)

NameFrame == UNCHANGED <<store, transportVars, ids>>

\* registerUsername(username, walletAddress, signTransaction) is called.
RegisterUsername ==
    \E username \in InputUsernames, walletAddress \in InputWallets :
        LET result == registerUsernameChecks(sns, username, walletAddress) IN
        /\ Len(calls) < MaxRegs
        /\ calls' = Append(calls, [pc |-> IF result = Undefined THEN "awaiting"
                                          ELSE "returned",
                                   username |-> username,
                                   walletAddress |-> walletAddress,
                                   result |-> result])
        /\ lastOp' = Op("registerUsername", walletAddress, username)
        /\ UNCHANGED <<sns, clock>>
        /\ NameFrame

\* The promise of signTransaction of a waiting call settles: resolved, the
\* call registers the name; rejected, its catch block reports the failure.
SignTransactionSettles ==
    \E k \in 1..Len(calls), signed \in BOOLEAN :
        /\ calls[k].pc = "awaiting"
        /\ sns' = IF signed
                  THEN registerUsernameRecord(sns, calls[k].username,
                                              calls[k].walletAddress, clock)
                  ELSE sns
        /\ calls' = [calls EXCEPT
                       ![k].pc = "returned",
                       ![k].result = IF signed
                                     THEN [success |-> TRUE, error |-> ""]
                                     ELSE Failure("Failed to register username")]
        /\ lastOp' = Op("registerUsernameEnd", calls[k].walletAddress,
                        calls[k].username)
        /\ UNCHANGED clock
        /\ NameFrame

ResolveUsername ==
    \E username \in InputUsernames :
        /\ sns' = resolveUsername(sns, username, clock)
        /\ lastOp' = Op("resolveUsername", Null, username)
        /\ UNCHANGED <<calls, clock>>
        /\ NameFrame

ReverseResolve ==
    \E walletAddress \in InputWallets :
        /\ sns' = reverseResolve(sns, walletAddress, clock)
        /\ lastOp' = Op("reverseResolve", walletAddress, 0)
        /\ UNCHANGED <<calls, clock>>
        /\ NameFrame

IsUsernameAvailable ==
    \E username \in InputUsernames :
        /\ sns' = isUsernameAvailable(sns, username, clock)
        /\ lastOp' = Op("isUsernameAvailable", Null, username)
        /\ UNCHANGED <<calls, clock>>
        /\ NameFrame

\* Time passes, also while a call waits for the signature.
NameTick ==
    /\ clock < MaxNameTime
    /\ clock' = clock + 1
    /\ lastOp' = Op("tick", Null, 0)
    /\ UNCHANGED <<sns, calls>>
    /\ NameFrame

NameNext ==
    \/ RegisterUsername
    \/ SignTransactionSettles
    \/ ResolveUsername
    \/ ReverseResolve
    \/ IsUsernameAvailable
    \/ NameTick

SpecNames == NameInit /\ [][NameNext]_vars

\* C30: in every state, when reverseRegistry maps a wallet to a username,
\* nameRegistry has that username and its record's owner is the wallet.
C30_ReverseEntryHasOwnedName ==
    \A w \in DOMAIN sns.reverseRegistry :
        /\ sns.reverseRegistry[w] \in DOMAIN sns.nameRegistry
        /\ sns.nameRegistry[sns.reverseRegistry[w]].owner = w

====
